---- MODULE Spec2Model ----
(***************************************************************************)
(* Project search (crates/search/src/project_search.rs): the ProjectSearch *)
(* model (search session), the tasks it spawns, and the part of            *)
(* ProjectSearchView that builds queries and follows the match set.        *)
(***************************************************************************)
EXTENDS Integers, Sequences, FiniteSets, TLC

\* ------------------------------------------------------------------ bounds
\* Number of executions of ProjectSearch::search that are explored.
MaxSearchId == 2
\* Number of index requests that are in flight at once.
MaxIndexTasks == 2
\* Number of semantic query tasks that are dispatched.
MaxSemanticQueries == 2

\* The number of sessions search_in_new creates.
MaxNewSearches == 2

\* The length of the texts load_glob_set is checked on.
MaxGlobLen == 4

\* ------------------------------------------------------------ Option<T>
None == <<>>
Some(x) == <<x>>
IsSome(o) == o # <<>>
Unwrap(o) == o[1]

\* ------------------------------------------------------------- inputs
\* Texts of the query editor.  "(" does not compile as a regular expression
\* (unbalanced parenthesis).
QueryTexts == {"TWO", "("}

\* Texts of the include / exclude editors, as sequences of characters.
\* "[" is a glob that does not compile (unclosed character class).
GlobTexts == { <<"a", ",", " ">>, <<"a", ",", "[">> }

\* The characters of a glob text: a pattern character, the separator, a
\* whitespace, and the opening of a character class.
GlobChars == {"a", ",", " ", "["}

\* Every text of at most MaxGlobLen characters.
GlobInputs == UNION { [1..n -> GlobChars] : n \in 0..MaxGlobLen }

SearchOptions == {"Regex"}

Directions == {"Next", "Prev"}

\* ------------------------------------------------------- the project
\* Buffers of the project: /dir is the tree of tests::test_project_search,
\* /dir2 a second worktree holding a file of the same relative path.
Buffers == {"/dir/three.rs", "/dir/two.rs", "/dir2/two.rs"}

\* file.path(): the path relative to the buffer's worktree.
FilePath(buffer) ==
    CASE buffer = "/dir/three.rs" -> "three.rs"
      [] buffer = "/dir/two.rs"   -> "two.rs"
      [] buffer = "/dir2/two.rs"  -> "two.rs"

\* Ord on paths: the position of a path in the ascending list of paths.
PathsAscending == <<"four.rs", "one.rs", "three.rs", "two.rs">>
PathKey(buffer) ==
    CHOOSE i \in 1..Len(PathsAscending) : PathsAscending[i] = FilePath(buffer)

\* Project::search as the tests observe it: the number of match ranges of
\* each matching buffer ("TWO" is searched case-insensitively by default).
ProjectMatches(text) ==
    IF text = "TWO"
    THEN [b \in Buffers |-> IF b = "/dir/three.rs" THEN 2 ELSE 1]
    ELSE [b \in {} |-> 0]

\* ------------------------------------------------------------- state
VARIABLES
    \* struct ProjectSearch
    search_id, active_query, match_ranges, pending_search,
    \* the tasks spawned by ProjectSearch::search, keyed by the search_id
    \* they were spawned for
    tasks,
    \* struct ProjectSearchView
    regex, panels_with_errors, active_match_index, view_search_id,
    \* results_editor: the match range its newest selection covers
    selection,
    \* the editor of the view that has the focus
    focus,
    \* history: whether select_match was called since the last execution
    navigated,
    \* ProjectSearchView::semantic (Option<SemanticSearchState>)
    semantic,
    \* SemanticSearchState::_progress_task: its channel and the number of
    \* cx.notify() calls it made
    progress_task,
    \* the tasks spawned for semantic queries, by order of dispatch
    query_tasks,
    \* the number of detached index requests that have not resolved
    index_tasks,
    \* history: whether the number of toggle commands so far is odd
    toggled_on,
    \* history: whether an index request failed since the last toggle command
    index_failed,
    \* the ProjectSearch models search_in_new added to the workspace, in order
    new_searches,
    \* the ProjectSearch that clone_on_split made of the session
    cloned,
    \* the text given to load_glob_set and what it returned
    glob_text, glob_set

sessionVars == <<search_id, active_query, match_ranges, pending_search, tasks>>
cursorVars == <<active_match_index, view_search_id, selection, focus>>
historyVars == <<toggled_on, index_failed>>
semanticVars == <<semantic, progress_task, query_tasks, index_tasks, historyVars>>
itemVars == <<new_searches, cloned>>
globVars == <<glob_text, glob_set>>
otherVars == <<itemVars, globVars>>
vars == <<sessionVars, cursorVars, regex, panels_with_errors, navigated,
          semanticVars, otherVars>>

SearchIds == 1..MaxSearchId

NoTask == [phase |-> "unspawned", text |-> "", stream |-> <<>>]

QueryIds == 1..MaxSemanticQueries

\* No progress listener.
NoProgress == [phase |-> "none", rx |-> <<>>, notified |-> 0]

\* What SemanticIndex::index_project can answer: the number of files to
\* index and the values its progress channel then delivers.
IndexAnswers ==
    { [total |-> 5, values |-> <<5, 3, 0>>],
      [total |-> 3, values |-> <<0, 5>>] }

\* ProjectSearch::new and ProjectSearchView::new on it.
ViewInit ==
    /\ search_id = 0
    /\ active_query = None
    /\ match_ranges = <<>>
    /\ pending_search = None
    /\ tasks = [t \in SearchIds |-> NoTask]
    /\ regex = FALSE
    /\ panels_with_errors = {}
    /\ active_match_index = None
    /\ view_search_id = 0
    /\ selection = None
    /\ focus = "query_editor"
    /\ navigated = FALSE
    /\ semantic = None
    /\ progress_task = NoProgress
    /\ query_tasks = [q \in QueryIds |-> "unspawned"]
    /\ index_tasks = 0
    /\ toggled_on = FALSE
    /\ index_failed = FALSE
    /\ new_searches = <<>>
    /\ cloned = None
    /\ glob_set = None

Init == ViewInit /\ glob_text = <<>>

\* ------------------------------------------------------- query builder
\* str::split(','): the segments between the commas, in order.
RECURSIVE SplitFrom(_, _, _)
SplitFrom(text, i, segment) ==
    IF i > Len(text) THEN <<segment>>
    ELSE IF text[i] = ","
         THEN <<segment>> \o SplitFrom(text, i + 1, <<>>)
         ELSE SplitFrom(text, i + 1, Append(segment, text[i]))
Split(text) == SplitFrom(text, 1, <<>>)

\* str::trim: the segment without its leading and trailing whitespace.
RECURSIVE TrimStart(_)
TrimStart(segment) ==
    IF segment # <<>> /\ Head(segment) = " " THEN TrimStart(Tail(segment))
    ELSE segment
RECURSIVE TrimEnd(_)
TrimEnd(segment) ==
    IF segment # <<>> /\ segment[Len(segment)] = " "
    THEN TrimEnd(SubSeq(segment, 1, Len(segment) - 1))
    ELSE segment
Trim(segment) == TrimEnd(TrimStart(segment))

\* Glob::new(glob_str): fails on an unclosed character class.
GlobCompiles(glob_str) == \A i \in 1..Len(glob_str) : glob_str[i] # "["

\* Regex compilation inside SearchQuery::regex.
RegexCompiles(text) == text # "("

\* load_glob_set without the filter of empty segments.
RECURSIVE CollectGlobsKeepingEmpty(_)
CollectGlobsKeepingEmpty(segments) ==
    IF segments = <<>> THEN [ok |-> TRUE, matchers |-> <<>>]
    ELSE LET glob_str == Trim(Head(segments))
             rest == CollectGlobsKeepingEmpty(Tail(segments))
         IN IF ~GlobCompiles(glob_str) THEN [ok |-> FALSE, matchers |-> <<>>]
            ELSE IF ~rest.ok THEN rest
            ELSE [ok |-> TRUE, matchers |-> <<glob_str>> \o rest.matchers]

\* ProjectSearchView::load_glob_set: Ok(matchers) or Err.
RECURSIVE CollectGlobs(_)
CollectGlobs(segments) ==
    IF segments = <<>> THEN [ok |-> TRUE, matchers |-> <<>>]
    ELSE LET glob_str == Trim(Head(segments))
             rest == CollectGlobs(Tail(segments))
         IN IF glob_str = <<>> THEN rest
            ELSE IF ~GlobCompiles(glob_str) THEN [ok |-> FALSE, matchers |-> <<>>]
            ELSE IF ~rest.ok THEN rest
            ELSE [ok |-> TRUE, matchers |-> <<glob_str>> \o rest.matchers]
\* load_glob_set on every text the editors can hold, computed once.
GlobSets == [text \in GlobTexts \cup GlobInputs |-> CollectGlobs(Split(text))]
load_glob_set(text) == GlobSets[text]

\* SearchQuery::text / SearchQuery::regex.
SearchQuery(text, is_regex, included_files, excluded_files) ==
    [text |-> text, regex |-> is_regex,
     files_to_include |-> included_files, files_to_exclude |-> excluded_files]

\* build_search_query without the early return of the exclude field: the
\* panel is marked and the query is built all the same.
build_search_query_past_exclude(text, inc_text, exc_text, is_regex, panels) ==
    LET included_files == load_glob_set(inc_text)
        excluded_files == load_glob_set(exc_text)
    IN  IF ~included_files.ok
        THEN [query |-> None, panels |-> panels \cup {"Include"}]
        ELSE [query |-> Some(SearchQuery(text, is_regex,
                              included_files.matchers, excluded_files.matchers)),
              panels |-> IF excluded_files.ok THEN panels \ {"Include", "Exclude"}
                         ELSE (panels \ {"Include"}) \cup {"Exclude"}]

\* ProjectSearchView::build_search_query on the view's inputs and error
\* panels: the query it returns (None on failure) and the panels afterwards.
build_search_query(text, inc_text, exc_text, is_regex, panels) ==
    LET included_files == load_glob_set(inc_text)
        excluded_files == load_glob_set(exc_text)
    IN  IF ~included_files.ok
        THEN [query |-> None, panels |-> panels \cup {"Include"}]
        ELSE IF ~excluded_files.ok
        THEN [query |-> None,
              panels |-> (panels \ {"Include"}) \cup {"Exclude"}]
        ELSE IF is_regex
        THEN IF RegexCompiles(text)
             THEN [query |-> Some(SearchQuery(text, TRUE,
                                   included_files.matchers, excluded_files.matchers)),
                   panels |-> panels \ {"Include", "Exclude", "Query"}]
             ELSE [query |-> None,
                   panels |-> (panels \ {"Include", "Exclude"}) \cup {"Query"}]
        ELSE [query |-> Some(SearchQuery(text, FALSE,
                              included_files.matchers, excluded_files.matchers)),
              panels |-> panels \ {"Include", "Exclude"}]

\* ------------------------------------------------------ match navigator
\* SearchableItem::match_index_for_direction: the index select_match moves
\* to from current_index (indices count from 0, as in the source).
match_index_for_direction(matches, current_index, direction) ==
    IF direction = "Next"
    THEN (current_index + 1) % Len(matches)
    ELSE IF current_index = 0 THEN Len(matches) - 1 ELSE current_index - 1

\* editor::items::active_match_index: the index of the match under (or
\* following) the caret of the results editor; a caret at the start of
\* the buffer (no selected range) is followed by the first match.
items_active_match_index(ranges, cursor) ==
    IF ranges = <<>> THEN None
    ELSE IF cursor = None THEN Some(0)
    ELSE IF \E i \in 1..Len(ranges) : ranges[i] = Unwrap(cursor)
    THEN Some((CHOOSE i \in 1..Len(ranges) : ranges[i] = Unwrap(cursor)) - 1)
    ELSE None

\* The view's cursor over the match set, as one value.
Cursor(index, sid, sel, focused) ==
    [active_match_index |-> index, search_id |-> sid, selection |-> sel,
     focus |-> focused]

\* ProjectSearchView::update_match_index.
update_match_index(ranges, cursor) ==
    [cursor EXCEPT !.active_match_index =
        items_active_match_index(ranges, cursor.selection)]

\* select_match that ignores the direction and always moves forward.
select_match_forward(ranges, cursor, direction) ==
    IF IsSome(cursor.active_match_index)
    THEN LET index == Unwrap(cursor.active_match_index)
             new_index == match_index_for_direction(ranges, index, "Next")
         IN update_match_index(ranges,
                [cursor EXCEPT !.selection = Some(ranges[new_index + 1])])
    ELSE cursor

\* select_match that selects the range at the old index instead of new_index.
select_match_in_place(ranges, cursor, direction) ==
    IF IsSome(cursor.active_match_index)
    THEN LET index == Unwrap(cursor.active_match_index)
         IN update_match_index(ranges,
                [cursor EXCEPT !.selection = Some(ranges[index + 1])])
    ELSE cursor

\* ProjectSearchView::select_match, with the update_match_index that the
\* results editor's SelectionsChanged event triggers.
select_match(ranges, cursor, direction) ==
    IF IsSome(cursor.active_match_index)
    THEN LET index == Unwrap(cursor.active_match_index)
             new_index == match_index_for_direction(ranges, index, direction)
             range_to_select == ranges[new_index + 1]
         IN update_match_index(ranges,
                [cursor EXCEPT !.selection = Some(range_to_select)])
    ELSE cursor

\* model_changed that leaves the focus where it is.
model_changed_keeping_focus(ranges, model_search_id, cursor) ==
    IF ranges = <<>>
    THEN [cursor EXCEPT !.active_match_index = None]
    ELSE LET selected == select_match(ranges,
                 [cursor EXCEPT !.active_match_index = Some(0)], "Next")
             moved == update_match_index(ranges, selected)
             is_new_search == model_search_id # cursor.search_id
             first == IF is_new_search
                      THEN [moved EXCEPT !.selection = Some(ranges[1])]
                      ELSE moved
         IN update_match_index(ranges,
                [first EXCEPT !.search_id = model_search_id])

\* ProjectSearchView::model_changed, the observer of the model: runs in the
\* effect cycle of every cx.notify() of ProjectSearch.
model_changed(ranges, model_search_id, cursor) ==
    IF ranges = <<>>
    THEN [cursor EXCEPT !.active_match_index = None]
    ELSE LET selected == select_match(ranges,
                 [cursor EXCEPT !.active_match_index = Some(0)], "Next")
             moved == update_match_index(ranges, selected)
             is_new_search == model_search_id # cursor.search_id
             first == IF is_new_search
                      THEN [moved EXCEPT
                              !.selection = Some(ranges[1]),
                              !.focus = IF @ = "query_editor"
                                        THEN "results_editor" ELSE @]
                      ELSE moved
         IN update_match_index(ranges,
                [first EXCEPT !.search_id = model_search_id])

CurrentCursor == Cursor(active_match_index, view_search_id, selection, focus)

\* The view's cursor becomes c.
SetCursor(c) ==
    /\ active_match_index' = c.active_match_index
    /\ view_search_id' = c.search_id
    /\ selection' = c.selection
    /\ focus' = c.focus

\* --------------------------------------------------------- search session
\* sort_by_key(file path), a stable sort: insert each document behind the
\* documents whose key is not greater.
RECURSIVE InsertByPath(_, _)
InsertByPath(sorted, doc) ==
    IF sorted = <<>> THEN <<doc>>
    ELSE IF PathKey(doc.buffer) < PathKey(Head(sorted).buffer)
         THEN <<doc>> \o sorted
         ELSE <<Head(sorted)>> \o InsertByPath(Tail(sorted), doc)
RECURSIVE SortFrom(_, _)
SortFrom(sorted, rest) ==
    IF rest = <<>> THEN sorted
    ELSE SortFrom(InsertByPath(sorted, Head(rest)), Tail(rest))
\* The documents left in the order the backend returned them.
unsorted(matches) == matches

sort_by_key(matches) == SortFrom(<<>>, matches)

\* The match ranges of one document, in buffer order; a range is anchored
\* in the excerpts pushed for the search that produced it.
DocRanges(sid, doc) ==
    [k \in 1..doc.count |-> [search |-> sid, buffer |-> doc.buffer, k |-> k]]

\* MultiBuffer::stream_excerpts_with_context_lines: the ranges the stream
\* yields, document by document in the order given.
RECURSIVE stream_excerpts(_, _)
stream_excerpts(sid, matches) ==
    IF matches = <<>> THEN <<>>
    ELSE DocRanges(sid, Head(matches)) \o stream_excerpts(sid, Tail(matches))

\* matches.into_iter().collect(): the documents of the HashMap the backend
\* returned, in any order.
Orders(found) ==
    LET n == Cardinality(DOMAIN found)
    IN { [i \in 1..n |-> [buffer |-> f[i], count |-> found[f[i]]]] :
           f \in { g \in [1..n -> DOMAIN found] :
                     \A i, j \in 1..n : i # j => g[i] # g[j] } }

\* The task held is detached instead of dropped: it keeps running.
DetachTask(ts, held) == ts

\* Every result the backend can return for a text of the query editor, and
\* the sorted documents of each, computed once.
BackendResults == [text \in QueryTexts |-> Orders(ProjectMatches(text))]
SortedMatches ==
    [matches \in UNION { BackendResults[text] : text \in QueryTexts } |->
        sort_by_key(matches)]

\* Assigning pending_search drops the Task it held: a task still running is
\* cancelled ("dropped"), the handle of a failed one is released ("done").
DropTask(ts, held) ==
    IF IsSome(held) /\ ts[Unwrap(held)].phase \in {"searching", "streaming"}
    THEN [ts EXCEPT ![Unwrap(held)].phase = "dropped", ![Unwrap(held)].stream = <<>>]
    ELSE IF IsSome(held) /\ ts[Unwrap(held)].phase = "failed"
    THEN [ts EXCEPT ![Unwrap(held)].phase = "done"]
    ELSE ts

\* self.search_id += 1
NextSearchId(id) == id + 1

\* ProjectSearch::search without `self.match_ranges.clear()`.
ModelSearchKeepingRanges(query) ==
    /\ search_id < MaxSearchId
    /\ search_id' = NextSearchId(search_id)
    /\ active_query' = Some(query)
    /\ match_ranges' = match_ranges
    /\ pending_search' = Some(search_id')
    /\ tasks' = [DropTask(tasks, pending_search) EXCEPT ![search_id'] =
                    [phase |-> "searching", text |-> query.text, stream |-> <<>>]]
    /\ SetCursor(model_changed(match_ranges', search_id', CurrentCursor))
    /\ navigated' = FALSE

\* ProjectSearch::search(query), and the view's model_changed it notifies.
ModelSearch(query) ==
    /\ search_id < MaxSearchId
    /\ search_id' = NextSearchId(search_id)
    /\ active_query' = Some(query)
    /\ match_ranges' = <<>>
    /\ pending_search' = Some(search_id')
    /\ tasks' = [DropTask(tasks, pending_search) EXCEPT ![search_id'] =
                    [phase |-> "searching", text |-> query.text, stream |-> <<>>]]
    /\ SetCursor(model_changed(match_ranges', search_id', CurrentCursor))
    /\ navigated' = FALSE

\* Assigning or dropping SemanticSearchState::search_task drops the Task it
\* held: a running query task is cancelled ("dropped"), the handle of a
\* failed one is released ("done").
DropQueryTask(qs, held) ==
    IF IsSome(held) /\ qs[Unwrap(held)] = "running"
    THEN [qs EXCEPT ![Unwrap(held)] = "dropped"]
    ELSE IF IsSome(held) /\ qs[Unwrap(held)] = "failed"
    THEN [qs EXCEPT ![Unwrap(held)] = "done"]
    ELSE qs

\* The semantic branch without the check of outstanding_file_count.
SemanticSearchUngated ==
    LET state == Unwrap(semantic)
    IN \E q \in QueryIds :
          /\ query_tasks[q] = "unspawned"
          /\ \A p \in QueryIds : p < q => query_tasks[p] # "unspawned"
          /\ query_tasks' = [DropQueryTask(query_tasks, state.search_task)
                                EXCEPT ![q] = "running"]
          /\ semantic' = Some([state EXCEPT !.search_task = Some(q)])
          /\ UNCHANGED <<progress_task, index_tasks, historyVars>>

\* The semantic branch of ProjectSearchView::search.
SemanticSearch ==
    LET state == Unwrap(semantic)
    IN IF state.outstanding_file_count > 0
       THEN UNCHANGED semanticVars
       ELSE \E q \in QueryIds :
               /\ query_tasks[q] = "unspawned"
               /\ \A p \in QueryIds : p < q => query_tasks[p] # "unspawned"
               /\ query_tasks' = [DropQueryTask(query_tasks, state.search_task)
                                     EXCEPT ![q] = "running"]
               /\ semantic' = Some([state EXCEPT !.search_task = Some(q)])
               /\ UNCHANGED <<progress_task, index_tasks, historyVars>>

\* A search command that builds and executes the text query in semantic mode
\* too.
ViewSearchBoth(text, inc_text, exc_text) ==
    LET built == build_search_query(text, inc_text, exc_text, regex',
                                    panels_with_errors)
    IN /\ panels_with_errors' = built.panels
       /\ IF IsSome(built.query)
          THEN ModelSearch(Unwrap(built.query))
          ELSE UNCHANGED <<sessionVars, cursorVars, navigated>>
       /\ IF IsSome(semantic)
          THEN SemanticSearch
          ELSE UNCHANGED semanticVars

\* ProjectSearchView::search on the texts of the three editors.  In semantic
\* mode: the semantic query.  Otherwise: build the query, execute it when the
\* build succeeded.
ViewSearch(text, inc_text, exc_text) ==
    IF IsSome(semantic)
    THEN /\ SemanticSearch
         /\ UNCHANGED <<sessionVars, cursorVars, navigated, panels_with_errors>>
    ELSE LET built == build_search_query(text, inc_text, exc_text, regex',
                                         panels_with_errors)
         IN /\ panels_with_errors' = built.panels
            /\ IF IsSome(built.query)
               THEN ModelSearch(Unwrap(built.query))
               ELSE UNCHANGED <<sessionVars, cursorVars, navigated>>
            /\ UNCHANGED semanticVars

\* ProjectSearchBar::search (the Confirm action).
Search(text, inc_text, exc_text) ==
    /\ UNCHANGED <<regex, otherVars>>
    /\ ViewSearch(text, inc_text, exc_text)

\* ProjectSearchBar::toggle_search_option.
ToggleSearchOption(option, text, inc_text, exc_text) ==
    /\ regex' = IF option = "Regex" THEN ~regex ELSE regex
    /\ UNCHANGED otherVars
    /\ ViewSearch(text, inc_text, exc_text)

\* A failing task that takes pending_search before it ends, without
\* cx.notify().
SearchFailsTaking(t) ==
    /\ tasks[t].phase = "searching"
    /\ pending_search' = None
    /\ tasks' = [tasks EXCEPT ![t].phase = "done"]
    /\ UNCHANGED <<search_id, active_query, match_ranges,
                   regex, cursorVars, panels_with_errors, navigated,
                   semanticVars, otherVars>>

\* The task of search t: `search.await` fails; log_err()? ends the task.
SearchFails(t) ==
    /\ tasks[t].phase = "searching"
    /\ tasks' = [tasks EXCEPT ![t].phase = "failed"]
    /\ UNCHANGED <<search_id, active_query, match_ranges, pending_search,
                   regex, cursorVars, panels_with_errors, navigated,
                   semanticVars, otherVars>>

\* The task of search t: `search.await` yields the matches; they are sorted
\* and handed to the excerpts, which are cleared first.
SearchResolves(t) ==
    /\ tasks[t].phase = "searching"
    /\ \E matches \in BackendResults[tasks[t].text] :
          tasks' = [tasks EXCEPT ![t].phase = "streaming",
                       ![t].stream = stream_excerpts(t, SortedMatches[matches])]
    /\ match_ranges' = <<>>
    /\ selection' = None
    /\ UNCHANGED <<search_id, active_query, pending_search, regex,
                   active_match_index, view_search_id, focus,
                   panels_with_errors, navigated, semanticVars, otherVars>>

\* A batch that is put in front of match_ranges instead of behind.
StreamYieldsPrepending(t, n) ==
    /\ tasks[t].phase = "streaming"
    /\ n \in 1..Len(tasks[t].stream)
    /\ match_ranges' = SubSeq(tasks[t].stream, 1, n) \o match_ranges
    /\ tasks' = [tasks EXCEPT ![t].stream =
                    SubSeq(tasks[t].stream, n + 1, Len(tasks[t].stream))]
    /\ SetCursor(model_changed(match_ranges', search_id, CurrentCursor))
    /\ UNCHANGED <<search_id, active_query, pending_search, regex,
                   panels_with_errors, navigated, semanticVars, otherVars>>

\* A batch whose callback also takes pending_search, before the stream is
\* exhausted.
StreamYieldsTaking(t, n) ==
    /\ tasks[t].phase = "streaming"
    /\ n \in 1..Len(tasks[t].stream)
    /\ match_ranges' = match_ranges \o SubSeq(tasks[t].stream, 1, n)
    /\ tasks' = [tasks EXCEPT ![t].stream =
                    SubSeq(tasks[t].stream, n + 1, Len(tasks[t].stream))]
    /\ pending_search' = None
    /\ SetCursor(model_changed(match_ranges', search_id, CurrentCursor))
    /\ UNCHANGED <<search_id, active_query, regex,
                   panels_with_errors, navigated, semanticVars, otherVars>>

\* The task of search t: the stream yields a range; it and the ranges already
\* buffered behind it (try_next) are pushed, and the model notifies.
StreamYields(t, n) ==
    /\ tasks[t].phase = "streaming"
    /\ n \in 1..Len(tasks[t].stream)
    /\ match_ranges' = match_ranges \o SubSeq(tasks[t].stream, 1, n)
    /\ tasks' = [tasks EXCEPT ![t].stream =
                    SubSeq(tasks[t].stream, n + 1, Len(tasks[t].stream))]
    /\ SetCursor(model_changed(match_ranges', search_id, CurrentCursor))
    /\ UNCHANGED <<search_id, active_query, pending_search, regex,
                   panels_with_errors, navigated, semanticVars, otherVars>>

\* The end of the task without `this.pending_search.take()`.
StreamCompletesWithoutTake(t) ==
    /\ tasks[t].phase = "streaming"
    /\ tasks[t].stream = <<>>
    /\ tasks' = [tasks EXCEPT ![t].phase = "done"]
    /\ SetCursor(model_changed(match_ranges, search_id, CurrentCursor))
    /\ UNCHANGED <<search_id, active_query, match_ranges, pending_search, regex,
                   panels_with_errors, navigated, semanticVars, otherVars>>

\* The task of search t: the stream is exhausted; pending_search.take() and
\* the model notifies.
StreamCompletes(t) ==
    /\ tasks[t].phase = "streaming"
    /\ tasks[t].stream = <<>>
    /\ pending_search' = None
    /\ tasks' = [DropTask(tasks, pending_search) EXCEPT ![t].phase = "done"]
    /\ SetCursor(model_changed(match_ranges, search_id, CurrentCursor))
    /\ UNCHANGED <<search_id, active_query, match_ranges, regex,
                   panels_with_errors, navigated, semanticVars, otherVars>>

\* ProjectSearchBar::select_next_match / select_prev_match.
SelectMatch(direction) ==
    /\ SetCursor(select_match(match_ranges, CurrentCursor, direction))
    /\ navigated' = TRUE
    /\ UNCHANGED <<sessionVars, regex, panels_with_errors, semanticVars, otherVars>>

\* A caret position of the results editor behind its last excerpt.
EndOfBuffer == [search |-> 0, buffer |-> "", k |-> 0]

\* The places of the results editor the user can put the caret at: inside a
\* match range, or behind the last one.
CaretPositions == { match_ranges[i] : i \in 1..Len(match_ranges) } \cup {EndOfBuffer}

\* The subscription of ProjectSearchView::new to the results editor: the user
\* moved the caret, the editor emits SelectionsChanged, update_match_index.
SelectionsChanged(position) ==
    /\ match_ranges # <<>>
    /\ position \in CaretPositions
    /\ SetCursor(update_match_index(match_ranges,
            [CurrentCursor EXCEPT !.selection = Some(position)]))
    /\ navigated' = TRUE
    /\ UNCHANGED <<sessionVars, regex, panels_with_errors, semanticVars, otherVars>>

\* The editors cycle_field moves the focus through, in order.
FieldEditors == <<"query_editor", "included_files_editor", "excluded_files_editor">>

\* move_focus_to_results that does not look at match_ranges.
MoveFocusToResultsAlways ==
    /\ focus' = "results_editor"
    /\ UNCHANGED <<sessionVars, active_match_index, view_search_id, selection,
                   regex, panels_with_errors, navigated, semanticVars, otherVars>>

\* ProjectSearchView::move_focus_to_results (the ToggleFocus action) with the
\* view as the active item of the pane.
MoveFocusToResults ==
    /\ focus' = IF focus # "results_editor" /\ match_ranges # <<>>
                THEN "results_editor" ELSE focus
    /\ UNCHANGED <<sessionVars, active_match_index, view_search_id, selection,
                   regex, panels_with_errors, navigated, semanticVars, otherVars>>

\* deploy that builds a new ProjectSearch and view although one exists.
DeployNew ==
    /\ focus' = "query_editor"
    /\ search_id' = 0
    /\ active_query' = None
    /\ match_ranges' = <<>>
    /\ pending_search' = None
    /\ tasks' = DropTask(tasks, pending_search)
    /\ active_match_index' = None
    /\ view_search_id' = 0
    /\ selection' = None
    /\ UNCHANGED <<regex, panels_with_errors, navigated, semanticVars, otherVars>>

\* ProjectSearchView::deploy (the NewSearch action) in the workspace that
\* holds the view: the view is activated and its query editor focused.
Deploy ==
    /\ focus' = "query_editor"
    /\ UNCHANGED <<sessionVars, active_match_index, view_search_id, selection,
                   regex, panels_with_errors, navigated, semanticVars, otherVars>>

\* ProjectSearchBar::tab / tab_previous (cycle_field): the focus moves to the
\* next or previous of the three input editors when one of them has it.
Tab(direction) ==
    /\ focus' = IF \E i \in 1..Len(FieldEditors) : FieldEditors[i] = focus
                THEN LET current_index ==
                             (CHOOSE i \in 1..Len(FieldEditors) : FieldEditors[i] = focus) - 1
                         new_index ==
                             IF direction = "Next"
                             THEN (current_index + 1) % Len(FieldEditors)
                             ELSE IF current_index = 0 THEN Len(FieldEditors) - 1
                             ELSE (current_index - 1) % Len(FieldEditors)
                     IN FieldEditors[new_index + 1]
                ELSE focus
    /\ UNCHANGED <<sessionVars, active_match_index, view_search_id, selection,
                   regex, panels_with_errors, navigated, semanticVars, otherVars>>

Next ==
    \/ \E text \in QueryTexts, inc_text \in GlobTexts, exc_text \in GlobTexts :
          Search(text, inc_text, exc_text)
    \/ \E option \in SearchOptions, text \in QueryTexts,
          inc_text \in GlobTexts, exc_text \in GlobTexts :
          ToggleSearchOption(option, text, inc_text, exc_text)
    \/ \E t \in SearchIds : SearchFails(t)
    \/ \E t \in SearchIds : SearchResolves(t)
    \/ \E t \in SearchIds : \E n \in 1..Len(tasks[t].stream) : StreamYields(t, n)
    \/ \E t \in SearchIds : StreamCompletes(t)
    \/ \E direction \in Directions : SelectMatch(direction)
    \/ \E position \in CaretPositions : SelectionsChanged(position)

Spec == Init /\ [][Next]_vars

\* The steps of the search tasks: the executor runs a spawned task whenever
\* it can make progress, and the backend answers every search.
TaskStep ==
    \E t \in SearchIds :
        \/ SearchFails(t)
        \/ SearchResolves(t)
        \/ \E n \in 1..Len(tasks[t].stream) : StreamYields(t, n)
        \/ StreamCompletes(t)

FairSpec == Spec /\ WF_vars(TaskStep)

\* The view with the commands that move the focus.
FocusNext ==
    \/ Next
    \/ MoveFocusToResults
    \/ Deploy
    \/ \E direction \in Directions : Tab(direction)

FocusSpec == Init /\ [][FocusNext]_vars

\* ------------------------------------------------ other search items
\* A ProjectSearch as another item of the workspace holds it.
Session(sid, query, ranges, pending) ==
    [search_id |-> sid, active_query |-> query, match_ranges |-> ranges,
     pending |-> pending]

\* A clone that keeps the pending state of the session it is made of.
clone_keeping_pending(sid, query, ranges, pending) ==
    Session(sid, query, ranges, IsSome(pending))

\* ProjectSearch::clone: pending_search is Default::default().
clone(sid, query, ranges, pending) == Session(sid, query, ranges, FALSE)

\* ProjectSearchView::clone_on_split: a view on a clone of the model.
CloneOnSplit ==
    /\ cloned' = Some(clone(search_id, active_query, match_ranges, pending_search))
    /\ UNCHANGED <<sessionVars, cursorVars, regex, panels_with_errors,
                   navigated, semanticVars, new_searches, globVars>>

\* search_in_new that executes the query it built on the model of the
\* active view.
SearchInNewOnModel(text, inc_text, exc_text) ==
    LET built == build_search_query(text, inc_text, exc_text, regex,
                                    panels_with_errors)
    IN /\ panels_with_errors' = built.panels
       /\ IF IsSome(built.query)
          THEN ModelSearch(Unwrap(built.query))
          ELSE UNCHANGED <<sessionVars, cursorVars, navigated>>
       /\ UNCHANGED <<regex, semanticVars, otherVars>>

\* ProjectSearchBar::search_in_new with the view as the active item: the
\* query is built on the view; when it is valid the view's options go back
\* to those of the active query, and a new ProjectSearch executes the query.
SearchInNew(text, inc_text, exc_text) ==
    LET built == build_search_query(text, inc_text, exc_text, regex,
                                    panels_with_errors)
    IN /\ Len(new_searches) < MaxNewSearches
       /\ panels_with_errors' = built.panels
       /\ regex' = IF IsSome(built.query) /\ IsSome(active_query)
                   THEN Unwrap(active_query).regex ELSE regex
       /\ new_searches' =
             IF IsSome(built.query)
             THEN Append(new_searches,
                         Session(NextSearchId(0), built.query, <<>>, TRUE))
             ELSE new_searches
       /\ UNCHANGED <<sessionVars, cursorVars, navigated, semanticVars,
                      cloned, globVars>>

\* The view with the search commands, its tasks, and search_in_new.
NewSearchNext ==
    \/ \E text \in QueryTexts, inc_text \in GlobTexts, exc_text \in GlobTexts :
          Search(text, inc_text, exc_text)
    \/ \E option \in SearchOptions, text \in QueryTexts,
          inc_text \in GlobTexts, exc_text \in GlobTexts :
          ToggleSearchOption(option, text, inc_text, exc_text)
    \/ TaskStep
    \/ \E text \in QueryTexts, inc_text \in GlobTexts, exc_text \in GlobTexts :
          SearchInNew(text, inc_text, exc_text)

NewSearchSpec == Init /\ [][NewSearchNext]_vars

\* The view with the search commands, its tasks, and the split of its pane.
CloneNext ==
    \/ \E text \in QueryTexts, inc_text \in GlobTexts, exc_text \in GlobTexts :
          Search(text, inc_text, exc_text)
    \/ \E option \in SearchOptions, text \in QueryTexts,
          inc_text \in GlobTexts, exc_text \in GlobTexts :
          ToggleSearchOption(option, text, inc_text, exc_text)
    \/ TaskStep
    \/ CloneOnSplit

CloneSpec == Init /\ [][CloneNext]_vars

\* ------------------------------------------------------ load_glob_set
\* load_glob_set is given a text.
GlobInit == ViewInit /\ glob_text \in GlobInputs

\* ProjectSearchView::load_glob_set(text).
LoadGlobSet ==
    /\ glob_set = None
    /\ glob_set' = Some(load_glob_set(glob_text))
    /\ UNCHANGED <<sessionVars, cursorVars, regex, panels_with_errors,
                   navigated, semanticVars, itemVars, glob_text>>

GlobNext == LoadGlobSet

GlobSpec == GlobInit /\ [][GlobNext]_vars

\* ------------------------------------------------- semantic coordinator
textVars == <<sessionVars, cursorVars, regex, panels_with_errors, navigated>>

\* toggle_semantic_search that detaches the tasks of the state it removes
\* instead of dropping them.
ToggleSemanticSearchDetaching ==
    /\ IF IsSome(semantic)
       THEN /\ semantic' = None
            /\ UNCHANGED <<progress_task, query_tasks, index_tasks>>
       ELSE /\ index_tasks < MaxIndexTasks
            /\ index_tasks' = index_tasks + 1
            /\ UNCHANGED <<semantic, progress_task, query_tasks>>
    /\ toggled_on' = ~toggled_on
    /\ index_failed' = FALSE
    /\ UNCHANGED <<textVars, otherVars, otherVars>>

\* ProjectSearchBar::toggle_semantic_search with a SemanticIndex available:
\* drop the semantic state, or request indexing in a detached task.
ToggleSemanticSearch ==
    /\ IF IsSome(semantic)
       THEN /\ semantic' = None
            /\ progress_task' = NoProgress
            /\ query_tasks' = DropQueryTask(query_tasks, Unwrap(semantic).search_task)
            /\ UNCHANGED index_tasks
       ELSE /\ index_tasks < MaxIndexTasks
            /\ index_tasks' = index_tasks + 1
            /\ UNCHANGED <<semantic, progress_task, query_tasks>>
    /\ toggled_on' = ~toggled_on
    /\ index_failed' = FALSE
    /\ UNCHANGED <<textVars, otherVars, otherVars>>

\* IndexResolves that installs the state with nothing outstanding.
IndexResolvesIndexed(answer) ==
    /\ index_tasks > 0
    /\ index_tasks' = index_tasks - 1
    /\ semantic' = Some([file_count |-> answer.total,
                         outstanding_file_count |-> 0,
                         search_task |-> None])
    /\ progress_task' = [phase |-> "listening", rx |-> answer.values, notified |-> 0]
    /\ query_tasks' = IF IsSome(semantic)
                      THEN DropQueryTask(query_tasks, Unwrap(semantic).search_task)
                      ELSE query_tasks
    /\ UNCHANGED <<textVars, otherVars, historyVars>>

\* An index request resolves with (files_to_index, files_remaining_rx): the
\* semantic state is installed and its progress listener spawned.
IndexResolves(answer) ==
    /\ index_tasks > 0
    /\ index_tasks' = index_tasks - 1
    /\ semantic' = Some([file_count |-> answer.total,
                         outstanding_file_count |-> answer.total,
                         search_task |-> None])
    /\ progress_task' = [phase |-> "listening", rx |-> answer.values, notified |-> 0]
    /\ query_tasks' = IF IsSome(semantic)
                      THEN DropQueryTask(query_tasks, Unwrap(semantic).search_task)
                      ELSE query_tasks
    /\ UNCHANGED <<textVars, otherVars, historyVars>>

\* A failing index request that installs an empty semantic state.
IndexFailsInstalling ==
    /\ index_tasks > 0
    /\ index_tasks' = index_tasks - 1
    /\ index_failed' = TRUE
    /\ semantic' = Some([file_count |-> 0, outstanding_file_count |-> 0,
                         search_task |-> None])
    /\ UNCHANGED <<progress_task, query_tasks, textVars, otherVars, toggled_on>>

\* An index request fails: `index_task.await?` ends the detached task, the
\* error is logged.
IndexFails ==
    /\ index_tasks > 0
    /\ index_tasks' = index_tasks - 1
    /\ index_failed' = TRUE
    /\ UNCHANGED <<semantic, progress_task, query_tasks, textVars, otherVars, toggled_on>>

\* The progress listener that leaves without cx.notify() on the value 0.
ProgressReceivesQuietZero ==
    /\ progress_task.phase = "listening"
    /\ progress_task.rx # <<>>
    /\ semantic' = IF IsSome(semantic)
                   THEN Some([Unwrap(semantic) EXCEPT
                                !.outstanding_file_count = Head(progress_task.rx)])
                   ELSE semantic
    /\ progress_task' = [progress_task EXCEPT
                            !.rx = Tail(progress_task.rx),
                            !.notified = IF IsSome(semantic) /\ Head(progress_task.rx) # 0
                                         THEN @ + 1 ELSE @]
    /\ UNCHANGED <<query_tasks, index_tasks, textVars, otherVars, historyVars>>

\* The progress listener receives the next value of the channel; the
\* `return` on 0 leaves the update closure, the loop goes on.
ProgressReceives ==
    /\ progress_task.phase = "listening"
    /\ progress_task.rx # <<>>
    /\ semantic' = IF IsSome(semantic)
                   THEN Some([Unwrap(semantic) EXCEPT
                                !.outstanding_file_count = Head(progress_task.rx)])
                   ELSE semantic
    /\ progress_task' = [progress_task EXCEPT
                            !.rx = Tail(progress_task.rx),
                            !.notified = IF IsSome(semantic) THEN @ + 1 ELSE @]
    /\ UNCHANGED <<query_tasks, index_tasks, textVars, otherVars, historyVars>>

\* The channel is closed: recv() yields None and the listener ends.
ProgressEnds ==
    /\ progress_task.phase = "listening"
    /\ progress_task.rx = <<>>
    /\ progress_task' = [progress_task EXCEPT !.phase = "ended"]
    /\ UNCHANGED <<semantic, query_tasks, index_tasks, textVars, otherVars, historyVars>>

\* What SemanticIndex::search_project can answer: ranked lists of results.
SemanticResults ==
    { <<>>,
      << [search |-> 0, buffer |-> "/dir/two.rs", k |-> 1],
         [search |-> 0, buffer |-> "/dir/three.rs", k |-> 1] >> }

\* The task of semantic query q: search_project answered with results; the
\* task prints them (dbg!) and clears search_task.
SemanticQueryCompletes(q, results) ==
    /\ results \in SemanticResults
    /\ query_tasks[q] = "running"
    /\ query_tasks' = [query_tasks EXCEPT ![q] = "done"]
    /\ semantic' = IF IsSome(semantic)
                   THEN Some([Unwrap(semantic) EXCEPT !.search_task = None])
                   ELSE semantic
    /\ UNCHANGED <<progress_task, index_tasks, textVars, otherVars, historyVars>>

\* The task of semantic query q: search_project failed;
\* `.context("search task")?` ends the task.
SemanticQueryFails(q) ==
    /\ query_tasks[q] = "running"
    /\ query_tasks' = [query_tasks EXCEPT ![q] = "failed"]
    /\ UNCHANGED <<semantic, progress_task, index_tasks, textVars, otherVars, historyVars>>

SemanticStep ==
    \/ ToggleSemanticSearch
    \/ \E answer \in IndexAnswers : IndexResolves(answer)
    \/ IndexFails
    \/ ProgressReceives
    \/ ProgressEnds
    \/ \E q \in QueryIds, results \in SemanticResults :
          SemanticQueryCompletes(q, results)
    \/ \E q \in QueryIds : SemanticQueryFails(q)

\* The view in a build that has a SemanticIndex: the search commands and the
\* semantic coordinator.  The search tasks and the navigation (Spec) leave
\* semanticVars as they are, and the steps of the coordinator leave textVars
\* as they are.
SemanticNext ==
    \/ \E text \in QueryTexts, inc_text \in GlobTexts, exc_text \in GlobTexts :
          Search(text, inc_text, exc_text)
    \/ \E option \in SearchOptions, text \in QueryTexts,
          inc_text \in GlobTexts, exc_text \in GlobTexts :
          ToggleSearchOption(option, text, inc_text, exc_text)
    \/ SemanticStep

SemanticSpec == Init /\ [][SemanticNext]_vars

\* ================================================================ claims
Pending == IsSome(pending_search)

Alive(t) == tasks[t].phase \in {"searching", "streaming"}

\* The search command with the texts the three editors hold.
SearchCommand(text, inc_text, exc_text) ==
    \/ Search(text, inc_text, exc_text)
    \/ \E option \in SearchOptions :
          ToggleSearchOption(option, text, inc_text, exc_text)

\* The fields that are invalid for the inputs of a build call.
InvalidFields(text, inc_text, exc_text, is_regex) ==
    {p \in {"Query"} : is_regex /\ ~RegexCompiles(text)}
    \cup {p \in {"Include"} : ~load_glob_set(inc_text).ok}
    \cup {p \in {"Exclude"} : ~load_glob_set(exc_text).ok}

\* Every range the backend delivers for search id of the text.
DeliveredRanges(id, text) ==
    UNION { { [search |-> id, buffer |-> b, k |-> k] :
                k \in 1..ProjectMatches(text)[b] } :
            b \in DOMAIN ProjectMatches(text) }

\* The ranges are grouped by document, documents in ascending path order.
GroupedAscending(ranges) ==
    \A i, j \in 1..Len(ranges) :
        i < j =>
          /\ PathKey(ranges[i].buffer) <= PathKey(ranges[j].buffer)
          /\ ranges[i].buffer = ranges[j].buffer =>
                /\ ranges[i].k < ranges[j].k
                /\ \A m \in i..j : ranges[m].buffer = ranges[i].buffer

\* C1: staleness law.  Once a newer execute superseded a search, no range of
\* the superseded search is in match_ranges, its task is not alive (at most
\* one task is alive, the one of the current search_id, held by
\* pending_search), and only the task of the current search clears pending.
C1_Staleness ==
    /\ [](/\ \A i \in 1..Len(match_ranges) : match_ranges[i].search = search_id
          /\ \A t \in SearchIds : Alive(t) => t = search_id /\ pending_search = Some(t))
    /\ [][Pending /\ ~Pending' =>
             /\ pending_search = Some(search_id)
             /\ tasks[search_id].phase = "streaming"
             /\ tasks'[search_id].phase = "done"]_vars

\* A second search superseded the first while it was in flight, and has
\* settled with its own results.
C1_Witness ==
    /\ search_id = 2
    /\ tasks[1].phase = "dropped"
    /\ ~Pending
    /\ match_ranges # <<>>

\* The session has settled on search id: not pending, holding every range the
\* backend delivered for the active query, documents in ascending path order.
Settled(id) ==
    /\ ~Pending
    /\ tasks[id].phase = "done"
    /\ IsSome(active_query)
    /\ { match_ranges[i] : i \in 1..Len(match_ranges) }
          = DeliveredRanges(id, Unwrap(active_query).text)
    /\ Len(match_ranges) = Cardinality(DeliveredRanges(id, Unwrap(active_query).text))
    /\ GroupedAscending(match_ranges)

\* C2: under fair scheduling of the search task, every execution that is not
\* superseded and whose backend search does not fail eventually settles with
\* pending = false and all delivered ranges in ascending path order.
C2_EventuallySettles ==
    \A id \in SearchIds :
        (search_id = id /\ pending_search = Some(id))
            ~> (search_id # id \/ tasks[id].phase = "failed" \/ Settled(id))

\* A search with matches has settled.
C2_Witness ==
    /\ search_id >= 1
    /\ Settled(search_id)
    /\ Len(match_ranges) = 4

\* C3: no failed, finished search task while the session reports pending.
C3_NoPendingAfterFailure ==
    \A t \in SearchIds : tasks[t].phase = "failed" => pending_search # Some(t)

\* C4: a search command whose build succeeds executes the query in that one
\* step: search_id is its previous value plus 1, active_query is the query,
\* match_ranges is empty and the session is pending, whatever the state before.
C4_ExecuteStep ==
    [][\A text \in QueryTexts, inc_text \in GlobTexts, exc_text \in GlobTexts :
          (/\ SearchCommand(text, inc_text, exc_text)
           /\ InvalidFields(text, inc_text, exc_text, regex') = {})
          => /\ search_id' = search_id + 1
             /\ active_query' = Some(SearchQuery(text, regex',
                    load_glob_set(inc_text).matchers, load_glob_set(exc_text).matchers))
             /\ match_ranges' = <<>>
             /\ pending_search' = Some(search_id')]_vars

\* The second execution has just been dispatched from a session that held
\* results (the results editor still selects a range of the first search).
C4_Witness ==
    /\ search_id = 2
    /\ tasks[2].phase = "searching"
    /\ match_ranges = <<>>
    /\ IsSome(selection)
    /\ Unwrap(selection).search = 1

\* C5: a search command whose build fails dispatches no search and leaves
\* search_id, active_query, match_ranges and pending as they were.
C5_FailedBuildLeavesSession ==
    [][\A text \in QueryTexts, inc_text \in GlobTexts, exc_text \in GlobTexts :
          (/\ InvalidFields(text, inc_text, exc_text, regex') # {}
           /\ SearchCommand(text, inc_text, exc_text))
          => UNCHANGED sessionVars]_vars

\* A build failed on the exclude field while a search with results was in
\* flight: the marker is set and the session still holds the search.
C5_Witness ==
    /\ "Exclude" \in panels_with_errors
    /\ Pending
    /\ match_ranges # <<>>

\* C6: a build call with both glob texts invalid marks Include and Exclude.
C6_BothGlobsMarked ==
    [][\A text \in QueryTexts, inc_text \in GlobTexts, exc_text \in GlobTexts :
          (/\ SearchCommand(text, inc_text, exc_text)
           /\ ~load_glob_set(inc_text).ok
           /\ ~load_glob_set(exc_text).ok)
          => {"Include", "Exclude"} \subseteq panels_with_errors']_vars

\* C7: after a build call that succeeds no error marker is set.
C7_SuccessClearsMarkers ==
    [][\A text \in QueryTexts, inc_text \in GlobTexts, exc_text \in GlobTexts :
          (/\ SearchCommand(text, inc_text, exc_text)
           /\ InvalidFields(text, inc_text, exc_text, regex') = {})
          => panels_with_errors' = {}]_vars

\* C8: after a build call that fails the markers are exactly the fields that
\* are invalid for the inputs of that call.
C8_FailureMarksExactly ==
    [][\A text \in QueryTexts, inc_text \in GlobTexts, exc_text \in GlobTexts :
          (/\ SearchCommand(text, inc_text, exc_text)
           /\ InvalidFields(text, inc_text, exc_text, regex') # {})
          => panels_with_errors'
                = InvalidFields(text, inc_text, exc_text, regex')]_vars

\* C9: in every state match_ranges is grouped by document, the documents in
\* ascending file-path order (three.rs before two.rs).
C9_GroupedAscending == GroupedAscending(match_ranges)

\* All ranges of three.rs and of both two.rs are in match_ranges.
C9_Witness ==
    /\ Len(match_ranges) = 4
    /\ match_ranges[1].buffer = "/dir/three.rs"
    /\ match_ranges[4].buffer \in {"/dir/two.rs", "/dir2/two.rs"}

\* C10: a settled search with matches and no navigation since its execution
\* has active match index 0 and selects the first element of match_ranges.
C10_SettledAtFirstMatch ==
    (~Pending /\ match_ranges # <<>> /\ ~navigated)
        => /\ active_match_index = Some(0)
           /\ selection = Some(match_ranges[1])

\* The index the navigation contract names for a move from index i over n
\* matches.
ContractIndex(i, n, direction) ==
    IF direction = "Next" THEN (i + 1) % n
    ELSE IF i = 0 THEN n - 1 ELSE i - 1

\* C11: with settled matches and an active index i, select(Next) makes the
\* active index (i + 1) mod n, select(Prev) makes it n - 1 from 0 and i - 1
\* otherwise, and the selected range is match_ranges at the new index.
C11_SelectMoves ==
    [][\A direction \in Directions :
          (/\ SelectMatch(direction)
           /\ ~Pending
           /\ match_ranges # <<>>
           /\ IsSome(active_match_index))
          => LET j == ContractIndex(Unwrap(active_match_index),
                                    Len(match_ranges), direction)
             IN /\ active_match_index' = Some(j)
                /\ selection' = Some(match_ranges[j + 1])]_vars

\* Navigation has wrapped to the last of four settled matches.
C11_Witness ==
    /\ ~Pending
    /\ navigated
    /\ Len(match_ranges) = 4
    /\ active_match_index = Some(3)
    /\ selection = Some(match_ranges[4])

\* The active indices after 1, 2, ... steps consecutive select_match calls
\* in one direction from the cursor (-1 stands for None).
RECURSIVE NavigationTrail(_, _, _, _)
NavigationTrail(ranges, cursor, direction, steps) ==
    IF steps = 0 THEN <<>>
    ELSE LET moved == select_match(ranges, cursor, direction)
         IN <<IF IsSome(moved.active_match_index)
              THEN Unwrap(moved.active_match_index) ELSE -1>>
            \o NavigationTrail(ranges, moved, direction, steps - 1)

\* C12: navigation cycle law.  Over n settled matches, n consecutive
\* select(Next) calls from the active index return to it and visit every
\* index exactly once; the same for n consecutive select(Prev) calls.
C12_CycleLaw ==
    (~Pending /\ match_ranges # <<>> /\ IsSome(active_match_index))
        => \A direction \in Directions :
              LET n == Len(match_ranges)
                  trail == NavigationTrail(match_ranges, CurrentCursor, direction, n)
              IN /\ trail[n] = Unwrap(active_match_index)
                 /\ { trail[k] : k \in 1..n } = 0..(n - 1)

\* Four settled matches, the cursor in the middle after navigation.
C12_Witness ==
    /\ ~Pending
    /\ navigated
    /\ Len(match_ranges) = 4
    /\ active_match_index = Some(2)

\* C13: with no active index and a non-empty match set, select(Next) and
\* select(Prev) make the active index 0 and select the first match; with an
\* empty match set both leave the index None and the selection as it was.
C13_SelectFromNone ==
    active_match_index = None
        => \A direction \in Directions :
              LET moved == select_match(match_ranges, CurrentCursor, direction)
              IN IF match_ranges # <<>>
                 THEN /\ moved.active_match_index = Some(0)
                      /\ moved.selection = Some(match_ranges[1])
                 ELSE /\ moved.active_match_index = None
                      /\ moved.selection = selection

\* C14: the active match index is None iff match_ranges is empty, and
\* otherwise a valid index into match_ranges.
C14_IndexValid ==
    /\ (active_match_index = None) <=> (match_ranges = <<>>)
    /\ IsSome(active_match_index)
          => Unwrap(active_match_index) \in 0..(Len(match_ranges) - 1)

\* C15: a batch appended for the current search, or its completion, leaves
\* the active index and the selected range as they were.
C15_CursorSurvivesGrowth ==
    [][(/\ \/ \E t \in SearchIds : \E n \in 1..Len(tasks[t].stream) : StreamYields(t, n)
           \/ \E t \in SearchIds : StreamCompletes(t)
        /\ IsSome(active_match_index))
       => /\ active_match_index' = active_match_index
          /\ selection' = selection]_vars

\* The semantic query task the view holds is running.
QueryRunning ==
    /\ IsSome(semantic)
    /\ IsSome(Unwrap(semantic).search_task)
    /\ query_tasks[Unwrap(Unwrap(semantic).search_task)] = "running"

Outstanding == Unwrap(semantic).outstanding_file_count

\* C16: in semantic mode a search command issued while a semantic query task
\* is running is a no-op: the running task is neither cancelled nor replaced
\* and no second task is dispatched.
C16_RunningQueryKept ==
    [][\A text \in QueryTexts, inc_text \in GlobTexts, exc_text \in GlobTexts :
          (QueryRunning /\ SearchCommand(text, inc_text, exc_text))
          => /\ semantic' = semantic
             /\ query_tasks' = query_tasks]_vars

\* C17: in semantic mode a search command issued while outstanding_file_count
\* > 0 dispatches no semantic query and changes nothing but the toggled
\* option; a semantic query task is only created with outstanding_file_count
\* = 0.
C17_NoQueryWhileIndexing ==
    /\ [][\A text \in QueryTexts, inc_text \in GlobTexts, exc_text \in GlobTexts :
             (/\ IsSome(semantic)
              /\ Outstanding > 0
              /\ SearchCommand(text, inc_text, exc_text))
             => UNCHANGED <<semanticVars, sessionVars, cursorVars,
                            panels_with_errors, navigated>>]_vars
    /\ [][\A q \in QueryIds :
             (query_tasks[q] = "unspawned" /\ query_tasks'[q] = "running")
             => IsSome(semantic) /\ Outstanding = 0]_vars

\* A semantic query was dispatched once the progress channel had reported
\* that nothing is outstanding.
C17_Witness ==
    /\ QueryRunning
    /\ Unwrap(semantic).file_count = 5
    /\ Outstanding = 0
    /\ progress_task.notified = 3

\* C18: toggling on from Off requests indexing, and when the indexer answers
\* with (total, channel) the semantic state exists with file_count = total,
\* outstanding_file_count = total and no query task.
C18_IndexingStarts ==
    /\ [][(ToggleSemanticSearch /\ semantic = None)
             => index_tasks' = index_tasks + 1 /\ semantic' = None]_vars
    /\ [][\A answer \in IndexAnswers :
             IndexResolves(answer)
             => semantic' = Some([file_count |-> answer.total,
                                  outstanding_file_count |-> answer.total,
                                  search_task |-> None])]_vars

\* The indexer has answered with 5 files and no progress was reported yet.
C18_Witness ==
    /\ IsSome(semantic)
    /\ Unwrap(semantic).file_count = 5
    /\ Outstanding = 5
    /\ Unwrap(semantic).search_task = None
    /\ progress_task.phase = "listening"
    /\ progress_task.notified = 0
    /\ index_tasks = 0

\* C19: every value received on the progress channel replaces
\* outstanding_file_count and emits one notification; with file_count = 5
\* and the values 5, 3, 0 the third notification leaves
\* outstanding_file_count = 0 and no query task.
C19_ProgressReplaces ==
    [][ProgressReceives
       => /\ IsSome(semantic')
          /\ Unwrap(semantic').outstanding_file_count = Head(progress_task.rx)
          /\ progress_task'.notified = progress_task.notified + 1
          /\ (Unwrap(semantic).file_count = 5 /\ Len(progress_task.rx) = 1)
                => /\ progress_task'.notified = 3
                   /\ Unwrap(semantic').outstanding_file_count = 0
                   /\ Unwrap(semantic').search_task = None]_vars

\* The values 5, 3, 0 were received for 5 files.
C19_Witness ==
    /\ IsSome(semantic)
    /\ Unwrap(semantic).file_count = 5
    /\ Outstanding = 0
    /\ Unwrap(semantic).search_task = None
    /\ progress_task.notified = 3
    /\ progress_task.rx = <<>>

\* C20: once the listener has received 0, no later value of the same channel
\* changes outstanding_file_count.
C20_ListenerStopsAtZero ==
    [][(/\ IsSome(semantic)
        /\ Outstanding = 0
        /\ progress_task.notified > 0
        /\ ProgressReceives)
       => /\ IsSome(semantic')
          /\ Unwrap(semantic').outstanding_file_count = 0]_vars

\* C21: with a semantic state present, outstanding_file_count <= file_count,
\* so file_count - outstanding_file_count (the displayed number of indexed
\* files) does not underflow.
C21_OutstandingBounded ==
    IsSome(semantic) => Outstanding <= Unwrap(semantic).file_count

\* C22: toggling off removes the semantic state together with its progress
\* listener and its query task: while the state is absent no listener
\* listens and no semantic query task runs, so no progress value and no query
\* completion of the removed state changes anything.
C22_ToggleOffDropsTasks ==
    /\ [](semantic = None
            => /\ progress_task.phase = "none"
               /\ \A q \in QueryIds : query_tasks[q] # "running")
    /\ [][(ToggleSemanticSearch /\ IsSome(semantic))
             => semantic' = None /\ UNCHANGED index_tasks]_vars

\* The state was removed while its only query task was running.
C22_Witness ==
    /\ semantic = None
    /\ query_tasks[1] = "dropped"
    /\ query_tasks[2] = "unspawned"
    /\ index_tasks = 0

\* C23: semantic mode follows the toggles: once no index request is in
\* flight, a semantic state exists only after an odd number of toggle
\* commands; a superseded index request installs no state.
C23_ModeFollowsToggles ==
    (index_tasks = 0 /\ IsSome(semantic)) => toggled_on

C25_QueryResultsShown ==
    [][\A q \in QueryIds, results \in SemanticResults :
          SemanticQueryCompletes(q, results)
          => /\ IsSome(semantic') /\ Unwrap(semantic').search_task = None
             /\ match_ranges' = results]_vars

\* C26: idempotence.  The match_ranges a search settles with are the ones a
\* run of the same query settles with for every order in which the backend
\* can return the documents.
C26_Idempotent ==
    (search_id >= 1 /\ Settled(search_id))
        => \A matches \in BackendResults[Unwrap(active_query).text] :
              match_ranges = stream_excerpts(search_id, SortedMatches[matches])

\* C28: ToggleFocus moves the focus to the results editor iff match_ranges is
\* non-empty and the results editor does not have it; with an empty match set
\* the focus stays where it is.
C28_ToggleFocus ==
    [][MoveFocusToResults
       => focus' = IF match_ranges # <<>> /\ focus # "results_editor"
                   THEN "results_editor" ELSE focus]_vars

\* The focus is in the results editor over the results of a settled search.
C28_Witness ==
    /\ ~Pending
    /\ match_ranges # <<>>
    /\ focus = "results_editor"
    /\ view_search_id = search_id

\* C29: when the first results of a newly executed search arrive while the
\* query editor is focused, the focus moves to the results editor; a search
\* that resolves or completes with no matches leaves the focus where it is.
C29_FocusFollowsFirstResults ==
    /\ [][(/\ \E t \in SearchIds : \E n \in 1..Len(tasks[t].stream) : StreamYields(t, n)
           /\ match_ranges = <<>>
           /\ focus = "query_editor")
          => focus' = "results_editor"]_vars
    /\ [][(/\ \E t \in SearchIds : SearchResolves(t) \/ StreamCompletes(t)
           /\ match_ranges' = <<>>)
          => focus' = focus]_vars

\* The first range of a search has arrived and the focus is in the results
\* editor.
C29_Witness ==
    /\ Pending
    /\ Len(match_ranges) = 1
    /\ focus = "results_editor"
    /\ search_id = 1

\* C30: deploying where the view exists executes no search and leaves the
\* results as they are; the query editor is focused.
C30_DeployExisting ==
    [][Deploy
       => /\ UNCHANGED <<sessionVars, active_match_index, view_search_id, selection>>
          /\ focus' = "query_editor"]_vars

\* The query editor is focused over the results of a settled search.
C30_Witness ==
    /\ ~Pending
    /\ Len(match_ranges) = 4
    /\ focus = "query_editor"
    /\ view_search_id = search_id

IsPrefix(s, t) == Len(s) <= Len(t) /\ SubSeq(t, 1, Len(s)) = s

\* C31: within one search_id match_ranges only grows by appending, and a
\* batch is appended in the order the stream delivers it.
C31_AppendOnly ==
    /\ [][search_id' = search_id => IsPrefix(match_ranges, match_ranges')]_vars
    /\ [][\A t \in SearchIds : \A n \in 1..Len(tasks[t].stream) :
             StreamYields(t, n)
             => match_ranges' = match_ranges \o SubSeq(tasks[t].stream, 1, n)]_vars

\* A search is in the middle of its stream: some ranges are in match_ranges,
\* others are still to come.
C31_Witness ==
    /\ Pending
    /\ Len(match_ranges) = 3
    /\ tasks[search_id].phase = "streaming"
    /\ Len(tasks[search_id].stream) = 1

\* The steps of ProjectSearch that call cx.notify(): search, the callback of
\* each batch, the callback at the end of the stream.
NotifyingStep ==
    \/ search_id' = search_id + 1
    \/ \E t \in SearchIds : \E n \in 1..Len(tasks[t].stream) : StreamYields(t, n)
    \/ \E t \in SearchIds : StreamCompletes(t)

\* C32: every step that changes match_ranges or the pending flag notifies in
\* that step.
C32_ChangesNotify ==
    [][(match_ranges' # match_ranges \/ Pending' # Pending) => NotifyingStep]_vars

\* A search has completed after delivering all its ranges.
C32_Witness ==
    /\ ~Pending
    /\ search_id = 2
    /\ tasks[2].phase = "done"
    /\ Len(match_ranges) = 4

\* C33: match_ranges is not modified while the session is not pending (only
\* an execute, which makes it pending, changes it), and a session that was
\* never executed has no match ranges.
C33_ConstantWhileIdle ==
    /\ [](search_id = 0 => match_ranges = <<>>)
    /\ [][(~Pending /\ match_ranges' # match_ranges)
             => search_id' = search_id + 1 /\ Pending']_vars

\* A second execute has cleared the results of a search that had settled.
C33_Witness ==
    /\ search_id = 2
    /\ tasks[1].phase = "done"
    /\ tasks[2].phase = "searching"
    /\ match_ranges = <<>>

\* ProjectSearchView::has_matches.
has_matches == IsSome(active_match_index)

\* C36: has_matches() is true exactly when match_ranges is non-empty.
C36_HasMatches == has_matches <=> (match_ranges # <<>>)

\* C34: while the semantic state exists, the search command and the option
\* toggles never run a text search: the session and the markers of the text
\* query builder stay as they are, whatever outstanding_file_count is.
C34_NoTextSearchInSemanticMode ==
    [][\A text \in QueryTexts, inc_text \in GlobTexts, exc_text \in GlobTexts :
          (IsSome(semantic) /\ SearchCommand(text, inc_text, exc_text))
          => UNCHANGED <<sessionVars, panels_with_errors>>]_vars

\* A search command has run in semantic mode (its query task is running)
\* over a session that an earlier text search left pending.
C34_Witness ==
    /\ QueryRunning
    /\ search_id = 1
    /\ Pending
    /\ match_ranges = <<>>

\* C35: when a semantic query task ends in failure the view's marker of a
\* running query is cleared: no failed task is still held as search_task.
C35_FailedQueryCleared ==
    \A q \in QueryIds :
        query_tasks[q] = "failed"
        => ~(IsSome(semantic) /\ Unwrap(semantic).search_task = Some(q))

\* C37: search_in_new never executes on the original session (its
\* search_id, active_query, match_ranges and pending flag stay as they are);
\* a new session that has executed once (search_id 1) is created exactly
\* when the query built from the inputs is valid, and an invalid build
\* creates none.
C37_SearchInNew ==
    /\ [][\A text \in QueryTexts, inc_text \in GlobTexts, exc_text \in GlobTexts :
             SearchInNew(text, inc_text, exc_text)
             => /\ UNCHANGED sessionVars
                /\ IF InvalidFields(text, inc_text, exc_text, regex) = {}
                   THEN /\ Len(new_searches') = Len(new_searches) + 1
                        /\ new_searches'[Len(new_searches')].search_id = 1
                        /\ new_searches'[Len(new_searches')].pending
                        /\ new_searches'[Len(new_searches')].match_ranges = <<>>
                        /\ SubSeq(new_searches', 1, Len(new_searches)) = new_searches
                   ELSE new_searches' = new_searches]_vars
    /\ [][new_searches' # new_searches => UNCHANGED sessionVars]_vars

\* search_in_new made a new session while the original one, which has
\* results of an earlier search and is still pending, kept them.
C37_Witness ==
    /\ Len(new_searches) = 1
    /\ new_searches[1].active_query # active_query
    /\ search_id = 1
    /\ Pending
    /\ Len(match_ranges) = 3

\* C38: a clone has the search_id, active_query and match_ranges the session
\* has at that moment and is not pending; the session is unchanged by it,
\* and nothing the session does afterwards changes the clone.
C38_Clone ==
    [][cloned' # cloned
          => /\ cloned' = Some([search_id |-> search_id,
                                active_query |-> active_query,
                                match_ranges |-> match_ranges,
                                pending |-> FALSE])
             /\ UNCHANGED sessionVars]_vars

\* A clone made of a pending session holds the ranges delivered until then;
\* the session has received more since.
C38_Witness ==
    /\ IsSome(cloned)
    /\ Unwrap(cloned).search_id = search_id
    /\ ~Unwrap(cloned).pending
    /\ Len(Unwrap(cloned).match_ranges) = 1
    /\ Len(match_ranges) = 4

\* The positions of the separators of a text, with both ends.
Cuts(text) == {0, Len(text) + 1} \cup {i \in 1..Len(text) : text[i] = ","}

\* The segments between neighbouring separators, as pairs of positions.
Fields(text) ==
    {f \in Cuts(text) \X Cuts(text) :
        /\ f[1] < f[2]
        /\ \A c \in Cuts(text) : ~(f[1] < c /\ c < f[2])}

\* The positions of a segment that hold no whitespace.
Inked(text, f) == {i \in (f[1] + 1)..(f[2] - 1) : text[i] # " "}

\* The segment without the whitespace around it.
Stripped(text, f) ==
    LET lo == CHOOSE i \in Inked(text, f) : \A j \in Inked(text, f) : i <= j
        hi == CHOOSE i \in Inked(text, f) : \A j \in Inked(text, f) : j <= i
    IN SubSeq(text, lo, hi)

\* The segments that are not empty after trimming, in the order of the text.
Kept(text) == {f \in Fields(text) : Inked(text, f) # {}}

\* C39: the text is split on commas, every segment trimmed, the empty ones
\* dropped; the result has one matcher per remaining segment in input order;
\* a text without such a segment gives the empty list without error; one
\* segment that does not compile fails the whole field.
C39_GlobList ==
    IsSome(glob_set)
    => LET result == Unwrap(glob_set)
           kept == Kept(glob_text)
       IN /\ result.ok <=> \A f \in kept : GlobCompiles(Stripped(glob_text, f))
          /\ result.ok
             => /\ Len(result.matchers) = Cardinality(kept)
                /\ \A f \in kept :
                      result.matchers[Cardinality({g \in kept : g[1] <= f[1]})]
                         = Stripped(glob_text, f)

\* Two patterns around a separator, with whitespace to trim.
C39_Witness ==
    /\ glob_text = <<"a", ",", " ", "a">>
    /\ glob_set = Some([ok |-> TRUE, matchers |-> << <<"a">>, <<"a">> >>])

====
